---- MODULE Spec2Model ----
(***************************************************************************)
(* Model of the PyCompiler command line front end (src/src/cli.py).        *)
(*                                                                         *)
(* One process runs CompilerCLI.run(): argument parsing, the --show-help   *)
(* shortcut, the config-exists check, then show_info or build_project.     *)
(* Config, Builder and the four Builder methods are external calls: each   *)
(* one either returns, raises an Exception, or raises KeyboardInterrupt.   *)
(* The history variables calls / output / tasks record what was invoked,   *)
(* what was printed on the console and the state of the progress tasks.    *)
(***************************************************************************)
EXTENDS Integers, Sequences, FiniteSets, TLC

\* Config paths are numbered 0..MaxPath; path 0 is the default "config.yaml".
MaxPath == 1

Paths == 0..MaxPath

DefaultConfig == 0

\* Exit statuses of the process.
Running == -1

ExitOk == 0

ExitFailure == 1

ArgparseError == 2

UncaughtInterrupt == 130

\* The ways an external call can end.
Outcomes == {"ok", "Exception", "KeyboardInterrupt"}

\* The four Builder methods in the order build_project calls them.
StageOrder == <<"create_temp_env", "install_dependencies", "build_with_nuitka", "cleanup">>

Stages == {StageOrder[i] : i \in 1..Len(StageOrder)}

VARIABLES
    files,    \* the config paths that exist on disk
    args,     \* the argparse namespace: show_help, info, config
    pc,       \* position of the process in run()
    checked,  \* whether Path(args.config).exists() was evaluated
    calls,    \* external calls made so far, with how each ended
    output,   \* what was printed, in order
    tasks,    \* descriptions of the progress tasks, in order of creation
    status    \* exit status of the process, Running while it runs

vars == <<files, args, pc, checked, calls, output, tasks, status>>

Init ==
    /\ files \in SUBSET Paths
    /\ args = [show_help |-> FALSE, info |-> FALSE, config |-> DefaultConfig]
    /\ pc = "run"
    /\ checked = FALSE
    /\ calls = <<>>
    /\ output = <<>>
    /\ tasks = <<>>
    /\ status = Running

Call(fn, r) == [fn |-> fn, res |-> r]

\* Replace the description of the last progress task (progress.update).
UpdateLast(ts, desc) == [ts EXCEPT ![Len(ts)] = desc]

----------------------------------------------------------------------------
\* run(): parser.parse_args() returns a namespace.
parse_args ==
    /\ pc = "run"
    /\ \E h \in BOOLEAN, i \in BOOLEAN, c \in Paths :
          args' = [show_help |-> h, info |-> i, config |-> c]
    /\ pc' = "parsed"
    /\ UNCHANGED <<files, checked, calls, output, tasks, status>>

\* run(): parser.parse_args() ends the process itself (-h, or a bad argument).
parse_args_exit ==
    /\ pc = "run"
    /\ \E s \in {ExitOk, ArgparseError} : status' = s
    /\ output' = Append(output, "usage")
    /\ pc' = "argparse_exit"
    /\ UNCHANGED <<files, args, checked, calls, tasks>>

\* A variant of run_show_help that forgets the return after print_help().
run_show_help_fallthrough ==
    /\ pc = "parsed"
    /\ args.show_help
    /\ checked' = TRUE
    /\ IF args.config \notin files
          THEN /\ output' = output \o <<"banner", "help", "banner", "config_not_found">>
               /\ status' = ExitFailure
               /\ pc' = "exited"
          ELSE /\ output' = output \o <<"banner", "help", "banner">>
               /\ status' = status
               /\ pc' = IF args.info THEN "show_info" ELSE "build_project"
    /\ UNCHANGED <<files, args, calls, tasks>>

\* run(): --show-help prints the help (banner, then help panel) and returns.
run_show_help ==
    /\ pc = "parsed"
    /\ args.show_help
    /\ output' = output \o <<"banner", "help">>
    /\ status' = ExitOk
    /\ pc' = "exited"
    /\ UNCHANGED <<files, args, checked, calls, tasks>>

\* A variant of run_config_missing that prints the error but does not exit.
run_config_missing_noexit ==
    /\ pc = "parsed"
    /\ ~args.show_help
    /\ args.config \notin files
    /\ checked' = TRUE
    /\ output' = output \o <<"banner", "config_not_found">>
    /\ pc' = IF args.info THEN "show_info" ELSE "build_project"
    /\ UNCHANGED <<files, args, calls, tasks, status>>

\* run(): banner, then the config file is missing: error panel, sys.exit(1).
run_config_missing ==
    /\ pc = "parsed"
    /\ ~args.show_help
    /\ args.config \notin files
    /\ checked' = TRUE
    /\ output' = output \o <<"banner", "config_not_found">>
    /\ status' = ExitFailure
    /\ pc' = "exited"
    /\ UNCHANGED <<files, args, calls, tasks>>

\* run(): banner, the config file exists, --info: enter show_info.
run_show_info ==
    /\ pc = "parsed"
    /\ ~args.show_help
    /\ args.config \in files
    /\ args.info
    /\ checked' = TRUE
    /\ output' = Append(output, "banner")
    /\ pc' = "show_info"
    /\ UNCHANGED <<files, args, calls, tasks, status>>

\* run(): banner, the config file exists, no --info: enter build_project.
run_build_project ==
    /\ pc = "parsed"
    /\ ~args.show_help
    /\ args.config \in files
    /\ ~args.info
    /\ checked' = TRUE
    /\ output' = Append(output, "banner")
    /\ pc' = "build_project"
    /\ UNCHANGED <<files, args, calls, tasks, status>>

----------------------------------------------------------------------------
\* A variant of show_info whose handler ends with sys.exit(1).
show_info_exit1 ==
    /\ pc = "show_info"
    /\ \E r \in Outcomes :
          /\ calls' = Append(calls, Call("Config", r))
          /\ output' = Append(output, CASE r = "ok" -> "info_table"
                                        [] r = "Exception" -> "info_error"
                                        [] OTHER -> "traceback")
          /\ status' = CASE r = "ok" -> ExitOk
                         [] r = "Exception" -> ExitFailure
                         [] OTHER -> UncaughtInterrupt
    /\ pc' = "exited"
    /\ UNCHANGED <<files, args, checked, tasks>>

\* show_info(): Config(config_path), then the table; an Exception is caught
\* and shown in an error panel, after which run() returns normally.  A
\* KeyboardInterrupt is not an Exception: it leaves show_info, run and main
\* uncaught, and the interpreter ends the process with a traceback.
show_info ==
    /\ pc = "show_info"
    /\ \E r \in Outcomes :
          /\ calls' = Append(calls, Call("Config", r))
          /\ output' = Append(output, CASE r = "ok" -> "info_table"
                                        [] r = "Exception" -> "info_error"
                                        [] OTHER -> "traceback")
          /\ status' = CASE r = "ok" -> ExitOk
                         [] r = "Exception" -> ExitOk
                         [] OTHER -> UncaughtInterrupt
    /\ pc' = "exited"
    /\ UNCHANGED <<files, args, checked, tasks>>

----------------------------------------------------------------------------
\* A variant of the handlers without the sys.exit(1) of the Exception clause.
ExceptStatus_noexit(r) == IF r = "KeyboardInterrupt" THEN ExitFailure ELSE ExitOk

\* build_project(): the exit status set by the two except clauses.
ExceptStatus(r) == ExitFailure

\* A variant of the handlers without the KeyboardInterrupt clause.
ExceptOutput_nointerrupt(r) == "build_failed"

\* build_project(): what the two except clauses print.
ExceptOutput(r) == IF r = "KeyboardInterrupt" THEN "interrupted" ELSE "build_failed"

\* One external call fn made inside the try block of build_project, at
\* position from.  When it returns, the code up to the next external call
\* runs: okOut is printed, the task list becomes okTasks and control moves to
\* position to.  When it raises, the matching except clause prints its
\* message and calls sys.exit.
TryCall(from, fn, okOut, okTasks, to) ==
    /\ pc = from
    /\ \E r \in Outcomes :
          /\ calls' = Append(calls, Call(fn, r))
          /\ IF r = "ok"
                THEN /\ output' = output \o okOut
                     /\ tasks' = okTasks
                     /\ pc' = to
                     /\ status' = IF to = "exited" THEN ExitOk ELSE status
                ELSE /\ output' = Append(output, ExceptOutput(r))
                     /\ tasks' = tasks
                     /\ pc' = "exited"
                     /\ status' = ExceptStatus(r)
    /\ UNCHANGED <<files, args, checked>>

\* build_project(): Config(config_path), then the Build Info panel.
load_config ==
    TryCall("build_project", "Config", <<"build_info">>, tasks, "builder")

\* build_project(): Builder(config), then Progress is entered and the first
\* task is added.
create_builder ==
    TryCall("builder", "Builder", <<>>,
            Append(tasks, "Creating environment..."), "create_temp_env")

\* A variant of create_temp_env that skips the dependency installation.
create_temp_env_skip ==
    TryCall("create_temp_env", "create_temp_env", <<>>,
            Append(UpdateLast(tasks, "Environment created"), "Compiling with Nuitka..."),
            "build_with_nuitka")

\* build_project(): builder.create_temp_env(), task1 completed, task2 added.
create_temp_env ==
    TryCall("create_temp_env", "create_temp_env", <<>>,
            Append(UpdateLast(tasks, "Environment created"), "Installing dependencies..."),
            "install_dependencies")

\* A variant of install_dependencies that swallows a failed installation and
\* goes on to the compilation.
install_dependencies_swallow ==
    /\ pc = "install_dependencies"
    /\ \E r \in Outcomes :
          calls' = Append(calls, Call("install_dependencies", r))
    /\ tasks' = Append(UpdateLast(tasks, "Dependencies installed"), "Compiling with Nuitka...")
    /\ pc' = "build_with_nuitka"
    /\ UNCHANGED <<files, args, checked, output, status>>

\* build_project(): builder.install_dependencies(), task2 completed, task3 added.
install_dependencies ==
    TryCall("install_dependencies", "install_dependencies", <<>>,
            Append(UpdateLast(tasks, "Dependencies installed"), "Compiling with Nuitka..."),
            "build_with_nuitka")

\* build_project(): builder.build_with_nuitka(), task3 completed, task4 added.
build_with_nuitka ==
    TryCall("build_with_nuitka", "build_with_nuitka", <<>>,
            Append(UpdateLast(tasks, "Compilation completed"), "Cleaning up..."),
            "cleanup")

\* A variant of cleanup that prints the Success panel before the cleanup call.
cleanup_success_first ==
    /\ pc = "cleanup"
    /\ \E r \in Outcomes :
          /\ calls' = Append(calls, Call("cleanup", r))
          /\ IF r = "ok"
                THEN /\ output' = Append(output, "success")
                     /\ tasks' = UpdateLast(tasks, "Cleanup finished")
                     /\ status' = ExitOk
                ELSE /\ output' = output \o <<"success", ExceptOutput(r)>>
                     /\ tasks' = tasks
                     /\ status' = ExceptStatus(r)
    /\ pc' = "exited"
    /\ UNCHANGED <<files, args, checked>>

\* build_project(): builder.cleanup(), task4 completed, Progress is left, the
\* Success panel is printed; build_project, run and main return.
cleanup ==
    TryCall("cleanup", "cleanup", <<"success">>,
            UpdateLast(tasks, "Cleanup finished"), "exited")

----------------------------------------------------------------------------
Next ==
    \/ parse_args
    \/ parse_args_exit
    \/ run_show_help
    \/ run_config_missing
    \/ run_show_info
    \/ run_build_project
    \/ show_info
    \/ load_config
    \/ create_builder
    \/ create_temp_env
    \/ install_dependencies
    \/ build_with_nuitka
    \/ cleanup

Spec == Init /\ [][Next]_vars

----------------------------------------------------------------------------
\* Vocabulary of the properties.

\* parse_args returned a namespace.
Parsed == pc \notin {"run", "argparse_exit"}

Exited == pc \in {"exited", "argparse_exit"}

\* build_project was entered in this run.
InBuild ==
    /\ Parsed
    /\ ~args.show_help
    /\ ~args.info
    /\ pc \notin {"parsed"}
    /\ args.config \in files

\* show_info was entered in this run.
InInfo ==
    /\ Parsed
    /\ ~args.show_help
    /\ args.info
    /\ pc \notin {"parsed"}
    /\ args.config \in files

Called(fn) == \E i \in 1..Len(calls) : calls[i].fn = fn

Returned(fn) == \E i \in 1..Len(calls) : calls[i] = Call(fn, "ok")

Raised(fn, r) == \E i \in 1..Len(calls) : calls[i] = Call(fn, r)

Count(fn) == Cardinality({i \in 1..Len(calls) : calls[i].fn = fn})

Printed(x) == \E i \in 1..Len(output) : output[i] = x

PrintCount(x) == Cardinality({i \in 1..Len(output) : output[i] = x})

SomeRaised(r) == \E i \in 1..Len(calls) : calls[i].res = r

\* The stage calls made so far, in order.
StageCalls == SelectSeq(calls, LAMBDA c : c.fn \in Stages)

TypeOK ==
    /\ files \subseteq Paths
    /\ args \in [show_help : BOOLEAN, info : BOOLEAN, config : Paths]
    /\ pc \in {"run", "parsed", "argparse_exit", "show_info", "build_project",
               "builder", "create_temp_env", "install_dependencies",
               "build_with_nuitka", "cleanup", "exited"}
    /\ checked \in BOOLEAN
    /\ status \in {Running, ExitOk, ExitFailure, ArgparseError, UncaughtInterrupt}
    /\ (status = Running) <=> ~Exited

----------------------------------------------------------------------------
\* C1: in every build invocation on a loadable config (Config and Builder
\* constructed), builder.cleanup() has been invoked exactly once when the
\* process exits, whichever stage raised, and also when none raised.
C1_CleanupExactlyOnce ==
    (pc = "exited" /\ InBuild /\ Returned("Config") /\ Returned("Builder"))
        => Count("cleanup") = 1

\* C2: once install_dependencies has raised, build_with_nuitka is never
\* invoked; once create_temp_env has raised, neither install_dependencies nor
\* build_with_nuitka is invoked.
C2_FailureAbortsLaterStages ==
    /\ (\E r \in Outcomes \ {"ok"} : Raised("install_dependencies", r))
          => ~Called("build_with_nuitka")
    /\ (\E r \in Outcomes \ {"ok"} : Raised("create_temp_env", r))
          => ~Called("install_dependencies") /\ ~Called("build_with_nuitka")

C2_Witness ==
    /\ pc = "exited"
    /\ Raised("install_dependencies", "Exception")

\* C3: a build run (no --info, no --show-help) exits with status 0 exactly
\* when Config loading and all four stages returned; it exits with status 1
\* when the config file is missing, and when Config, Builder or a stage
\* raised an Exception or a KeyboardInterrupt.
C3_BuildExitStatus ==
    (pc = "exited" /\ Parsed /\ ~args.show_help /\ ~args.info) =>
        /\ status \in {ExitOk, ExitFailure}
        /\ status = ExitOk <=> (Returned("Config") /\ \A s \in Stages : Returned(s))
        /\ args.config \notin files => status = ExitFailure
        /\ SomeRaised("Exception") => status = ExitFailure
        /\ SomeRaised("KeyboardInterrupt") => status = ExitFailure

C3_Witness ==
    /\ pc = "exited"
    /\ InBuild
    /\ Raised("build_with_nuitka", "Exception")
    /\ status = ExitFailure

\* C4: when the config path does not exist and --show-help is not set, the
\* run prints the config-not-found error and exits with status 1, and no
\* Config, Builder or stage call is ever made, with and without --info.
C4_ConfigMissingExits ==
    (Parsed /\ pc # "parsed" /\ ~args.show_help /\ args.config \notin files) =>
        /\ pc = "exited"
        /\ output = <<"banner", "config_not_found">>
        /\ status = ExitFailure
        /\ calls = <<>>

C4_Witness ==
    /\ pc = "exited"
    /\ Parsed
    /\ ~args.show_help
    /\ args.info
    /\ args.config \notin files
    /\ Printed("config_not_found")

\* C5: a failure of cleanup() is only a warning: after a failed stage the
\* reported error is the stage's, and after three successful stages a failing
\* cleanup() gives neither the 'Build failed' panel nor exit status 1.
C5_CleanupFailureIsWarning ==
    (pc = "exited" /\ Raised("cleanup", "Exception")) =>
        IF \A s \in Stages \ {"cleanup"} : Returned(s)
           THEN ~Printed("build_failed") /\ status # ExitFailure
           ELSE Printed("build_failed") /\ status = ExitFailure

\* C6: with --info and without --show-help no Builder is constructed and no
\* stage is invoked; when Config raises an Exception in show_info the error
\* panel is printed and the process ends with status 0.
C6_InfoNeverBuilds ==
    (Parsed /\ ~args.show_help /\ args.info) =>
        /\ ~Called("Builder")
        /\ \A s \in Stages : ~Called(s)
        /\ Raised("Config", "Exception") =>
              /\ pc = "exited"
              /\ Printed("info_error")
              /\ status = ExitOk

C6_Witness ==
    /\ InInfo
    /\ Raised("Config", "Exception")
    /\ Printed("info_error")

\* C7: with --show-help the run prints the help and returns with status 0:
\* the existence of the config file is not checked, nothing is called, for
\* every value of --info and --config and whether or not the file exists.
C7_ShowHelpOnly ==
    (Parsed /\ pc # "parsed" /\ args.show_help) =>
        /\ pc = "exited"
        /\ output = <<"banner", "help">>
        /\ ~checked
        /\ calls = <<>>
        /\ status = ExitOk

C7_Witness ==
    /\ pc = "exited"
    /\ Parsed
    /\ args.show_help
    /\ args.info
    /\ args.config \notin files

\* C8 as stated: a KeyboardInterrupt raised anywhere after argument parsing,
\* show_info included, is reported with 'Build interrupted', not with the
\* 'Build failed' panel, and the process ends with a non-zero status.
C8_InterruptAlwaysReported ==
    (Exited /\ SomeRaised("KeyboardInterrupt")) =>
        /\ Printed("interrupted")
        /\ ~Printed("build_failed")
        /\ status # ExitOk

\* C8 amended: a KeyboardInterrupt raised inside build_project (by Config,
\* Builder or one of the four stages) is reported with 'Build interrupted',
\* not with the 'Build failed' panel, and the process exits with status 1; a
\* KeyboardInterrupt raised inside show_info is not caught by the CLI: no
\* 'Build interrupted' is printed, and the exit status is still non-zero.
C8_InterruptInBuildReported ==
    (Exited /\ SomeRaised("KeyboardInterrupt")) =>
        IF InBuild
           THEN /\ Printed("interrupted")
                /\ ~Printed("build_failed")
                /\ status = ExitFailure
           ELSE /\ InInfo
                /\ ~Printed("interrupted")
                /\ ~Printed("build_failed")
                /\ status # ExitOk

C8_Witness ==
    /\ Exited
    /\ InBuild
    /\ Raised("build_with_nuitka", "KeyboardInterrupt")
    /\ Printed("interrupted")

\* C9: the stage calls form a prefix of create_temp_env, install_dependencies,
\* build_with_nuitka, cleanup, each made at most once; a stage is called only
\* after every earlier call returned and after Config returned.
C9_StagesInOrder ==
    /\ Len(StageCalls) <= Len(StageOrder)
    /\ \A i \in 1..Len(StageCalls) :
          i <= Len(StageOrder) => StageCalls[i].fn = StageOrder[i]
    /\ \A i \in 1..Len(calls) :
          calls[i].fn \in Stages =>
              /\ \A j \in 1..(i - 1) : calls[j].res = "ok"
              /\ \E j \in 1..(i - 1) : calls[j] = Call("Config", "ok")

C9_Witness ==
    /\ pc = "exited"
    /\ Len(StageCalls) = 3
    /\ Raised("build_with_nuitka", "Exception")

\* C10: a build_project invocation reports exactly one of Success, 'Build
\* failed' and 'Build interrupted'; Success only when all four stages
\* returned; 'Build failed' and 'Build interrupted' only with exit status 1.
Outcomes_Printed ==
    PrintCount("success") + PrintCount("build_failed") + PrintCount("interrupted")

C10_OneTerminalOutcome ==
    /\ Outcomes_Printed <= 1
    /\ (pc = "exited" /\ InBuild) => Outcomes_Printed = 1
    /\ Printed("success") => \A s \in Stages : Returned(s)
    /\ (Printed("build_failed") \/ Printed("interrupted")) => status = ExitFailure

C10_Witness ==
    /\ pc = "exited"
    /\ Raised("cleanup", "Exception")
    /\ Printed("build_failed")

====
